---- MODULE Spec2Model ----
(***************************************************************************)
(* A model of linux-rtfm's core: the monotonic Instant and its arithmetic  *)
(* (src/src/time.rs), the deadline-ordered TimerQueue (src/rtfm/src/tq.rs) *)
(* and the signal-mask priority-ceiling engine (src/src/export.rs).        *)
(*                                                                         *)
(* The specifications of the module:                                       *)
(*   SpecTime     the Instant arithmetic, applied to sampled inputs        *)
(*   SpecTQ       one core's TimerQueue, its clock, timer and wake signal  *)
(*   SpecTQLive   the TimerQueue driven by the timer handler's loop        *)
(*   Spec         one core's signal machine: handlers, masks and lock      *)
(*   SpecFabric   mask and register called with any arguments              *)
(*   SpecBarrier  the boot barrier on release/acquire memory               *)
(***************************************************************************)
EXTENDS Integers, Naturals, Sequences, FiniteSets, TLC

VARIABLES
    inst,      \* time: an Instant held by the application
    other,     \* time: a second Instant held by the application
    tLast,     \* time: the last Instant operation, its inputs and results
    heap,      \* tq: the BinaryHeap's data, the root first
    clock,     \* tq: the monotonic clock
    timer,     \* tq: the core's one-shot timer
    wake,      \* tq: pending signals SIGRTMIN + signo of the timer handler
    tqUB,      \* tq: push_unchecked was called on a full heap
    tqLast,    \* tq: the last TimerQueue call, its inputs and results
    app,       \* sig: the application (its task table), fixed at build time
    range,     \* sig: the core's signal range start..end
    stack,     \* sig: the execution contexts of the core, idle at the bottom
    blocked,   \* sig: the thread's blocked-signal mask (a sigset_t)
    pending,   \* sig: the queued real-time signals, per signal number
    trace,     \* sig: what the tasks have printed
    arrivals,  \* sig: activations sent from outside the core so far
    exited,    \* sig: process::exit was called
    csCount,   \* sig: per priority, the lower-priority critical sections
               \*      that have held back its pending activation
    lockLast,  \* sig: the last masking lock call that returned
    dLast,     \* sig: the last delivery, the signals it chose among
    sigact,    \* fabric: the handlers installed by register, per signal
    fLast,     \* fabric: the last mask or register call
    bFlag,     \* barrier: Barrier::inner, the AtomicBool
    bMem,      \* barrier: the releasing core's data as the other cores see it
    bBuf,      \* barrier: the releasing core's data as it has written it
    bRel,      \* barrier: whether release was called, and the data then
    bCore,     \* barrier: per waiting core, where it is and what it has read
    tqh,       \* live: whether the timer handler is running
    enq,       \* live: the enqueue_unchecked call in progress
    tqn        \* live: the enqueue_unchecked calls made so far

timeVars == <<inst, other, tLast>>
tqVars == <<heap, clock, timer, wake, tqUB, tqLast>>
sigVars == <<app, range, stack, blocked, pending, trace, arrivals, exited,
             csCount, lockLast, dLast>>
fabVars == <<sigact, fLast>>
barVars == <<bFlag, bMem, bBuf, bRel, bCore>>
liveVars == <<tqh, enq, tqn>>
auxVars == <<fabVars, barVars, liveVars>>

(***************************************************************************)
(* Instant and Duration (src/src/time.rs)                                  *)
(***************************************************************************)

\* const NANOS_IN_ONE_SEC: isize = 1_000_000_000
NANOS_IN_ONE_SEC == 1000000000

\* isize::MAX, the largest tv_sec; scaled down from 2^63 - 1 so that the
\* checked additions of the seconds field can be driven to their limit.
ISIZE_MAX == 2

\* u64::MAX, the largest Duration seconds; scaled likewise, and kept larger
\* than ISIZE_MAX so that isize::try_from(dur.as_secs()) can fail.
U64_MAX == 2 * ISIZE_MAX + 1

\* The nanosecond values the inputs are drawn from: they make the sum of two
\* fields fall below, exactly on and above one second.
NanoSamples == {0, 500000000, 999999999}

MkInstant(s, n) == [sec |-> s, nsec |-> n]
MkDuration(s, n) == [secs |-> s, nanos |-> n]

\* Option<Instant> and Option<Duration>, None carrying a zero payload
SomeI(i) == [some |-> TRUE, sec |-> i.sec, nsec |-> i.nsec]
NoneI == [some |-> FALSE, sec |-> 0, nsec |-> 0]
SomeD(d) == [some |-> TRUE, secs |-> d.secs, nanos |-> d.nanos]
NoneD == [some |-> FALSE, secs |-> 0, nanos |-> 0]
UnwrapI(o) == MkInstant(o.sec, o.nsec)
UnwrapD(o) == MkDuration(o.secs, o.nanos)

\* What Instant::now() can return: the kernel's timespec is normalized
ClockInstants == {MkInstant(s, n) : s \in 0..ISIZE_MAX, n \in NanoSamples}

\* The Durations the application passes: core::time::Duration is normalized
Durations == {MkDuration(s, n) : s \in 0..(ISIZE_MAX + 1), n \in NanoSamples}

\* impl PartialEq for Instant
InstantEq(a, b) == a.sec = b.sec /\ a.nsec = b.nsec

\* impl PartialOrd for Instant: seconds first, nanoseconds as the tiebreak
InstantCmp(a, b) ==
    IF a.sec < b.sec THEN "Less"
    ELSE IF a.sec > b.sec THEN "Greater"
    ELSE IF a.nsec < b.nsec THEN "Less"
    ELSE IF a.nsec > b.nsec THEN "Greater"
    ELSE "Equal"

\* Instant's < as a bug would write it: the seconds alone
InstantLtSecOnly(a, b) == a.sec < b.sec

InstantLt(a, b) == InstantCmp(a, b) = "Less"
InstantGe(a, b) == InstantCmp(a, b) # "Less"
InstantLe(a, b) == InstantCmp(a, b) # "Greater"

\* core::time::Duration::new: whole seconds of `nanos` are carried into secs;
\* None stands for its overflow panic
DurationNew(secs, nanos) ==
    LET s == secs + (nanos \div NANOS_IN_ONE_SEC)
    IN  IF s > U64_MAX THEN NoneD
        ELSE SomeD(MkDuration(s, nanos % NANOS_IN_ONE_SEC))

\* core::time::Duration + Duration (the d1 + d2 of the application)
DurationAdd(d1, d2) == DurationNew(d1.secs + d2.secs, d1.nanos + d2.nanos)

\* The carry test of checked_add: `if nanos > NANOS_IN_ONE_SEC`
CarryNeeded(nanos) == nanos > NANOS_IN_ONE_SEC

\* Instant::checked_add
checked_add(self, dur) ==
    IF dur.secs > ISIZE_MAX THEN NoneI                 \* isize::try_from(..).ok()?
    ELSE IF self.sec + dur.secs > ISIZE_MAX THEN NoneI \* tv_sec.checked_add(..)?
    ELSE
        LET secs == self.sec + dur.secs
            nanos == self.nsec + dur.nanos
        IN  IF CarryNeeded(nanos)
            THEN IF secs + 1 > ISIZE_MAX THEN NoneI    \* secs.checked_add(1)?
                 ELSE SomeI(MkInstant(secs + 1, nanos - NANOS_IN_ONE_SEC))
            ELSE SomeI(MkInstant(secs, nanos))

\* The borrow branch of checked_duration_since without its borrow
BorrowNoSec(self, earlier) ==
    DurationNew(self.sec - earlier.sec,
                self.nsec + NANOS_IN_ONE_SEC - earlier.nsec)

\* The borrow branch of checked_duration_since:
\* (tv_sec - 1 - earlier.tv_sec, tv_nsec + 1_000_000_000 - earlier.tv_nsec)
Borrow(self, earlier) ==
    DurationNew(self.sec - 1 - earlier.sec,
                self.nsec + NANOS_IN_ONE_SEC - earlier.nsec)

\* Instant::checked_duration_since
checked_duration_since(self, earlier) ==
    IF InstantLt(self, earlier) THEN NoneD
    ELSE IF self.nsec >= earlier.nsec
         THEN DurationNew(self.sec - earlier.sec, self.nsec - earlier.nsec)
         ELSE Borrow(self, earlier)

\* Instant::saturating_duration_since
saturating_duration_since(self, earlier) ==
    LET r == checked_duration_since(self, earlier)
    IN  IF r.some THEN UnwrapD(r) ELSE MkDuration(0, 0)

\* impl Add<Duration> for Instant: checked_add(..).unwrap(), None its panic
InstantAdd(self, dur) == checked_add(self, dur)

ZeroD == MkDuration(0, 0)
ZeroI == MkInstant(0, 0)

\* The record of one operation: a, b the Instants it read, d the Duration,
\* ri, ri2 the Instants and rd the Duration it produced
TimeRec(op, a, b, d, ri, ri2, rd) ==
    [op |-> op, a |-> a, b |-> b, d |-> d, ri |-> ri, ri2 |-> ri2, rd |-> rd]

TimeInit ==
    /\ inst \in ClockInstants
    /\ other \in ClockInstants
    /\ tLast = TimeRec("none", ZeroI, ZeroI, ZeroD, NoneI, NoneI, NoneD)

\* let inst = Instant::now()
TimeNow ==
    /\ inst' \in ClockInstants
    /\ tLast' = TimeRec("now", inst', other, ZeroD, NoneI, NoneI, NoneD)
    /\ UNCHANGED other
    /\ UNCHANGED <<tqVars, sigVars, auxVars>>

\* other = inst (Instant is Copy)
TimeCopy ==
    /\ other' = inst
    /\ tLast' = TimeRec("copy", inst, other, ZeroD, NoneI, NoneI, NoneD)
    /\ UNCHANGED inst
    /\ UNCHANGED <<tqVars, sigVars, auxVars>>

\* if let Some(r) = inst.checked_add(d) { inst = r }
TimeCheckedAdd ==
    \E d \in Durations :
        LET r == checked_add(inst, d)
        IN  /\ tLast' = TimeRec("checked_add", inst, other, d, r, NoneI, NoneD)
            /\ inst' = IF r.some THEN UnwrapI(r) ELSE inst
            /\ UNCHANGED <<other, tqVars, sigVars, auxVars>>

\* The Durations added in pairs: those of less than two seconds
ShortDurations == {d \in Durations : d.secs <= 1}

\* (inst + d1) + d2 against inst + (d1 + d2); a panic of either side is None
TimeAddTwice ==
    \E d1 \in ShortDurations, d2 \in ShortDurations :
        LET l1 == InstantAdd(inst, d1)
            l == IF l1.some THEN InstantAdd(UnwrapI(l1), d2) ELSE NoneI
            ds == DurationAdd(d1, d2)
            r == IF ds.some THEN InstantAdd(inst, UnwrapD(ds)) ELSE NoneI
        IN  /\ tLast' = TimeRec("add_twice", inst, other, ZeroD, l, r, NoneD)
            /\ UNCHANGED <<inst, other, tqVars, sigVars, auxVars>>

\* inst.checked_duration_since(other)
TimeDurationSince ==
    /\ tLast' = TimeRec("duration_since", inst, other, ZeroD, NoneI, NoneI,
                        checked_duration_since(inst, other))
    /\ UNCHANGED <<inst, other>>
    /\ UNCHANGED <<tqVars, sigVars, auxVars>>

\* inst.saturating_duration_since(other)
TimeSaturatingSince ==
    /\ tLast' = TimeRec("saturating_since", inst, other, ZeroD, NoneI, NoneI,
                        SomeD(saturating_duration_since(inst, other)))
    /\ UNCHANGED <<inst, other>>
    /\ UNCHANGED <<tqVars, sigVars, auxVars>>

\* other.checked_add(inst.checked_duration_since(other).unwrap()): a deadline
\* recomputed from an elapsed time; the unwrap of None is a panic
TimeRoundTrip ==
    LET elapsed == checked_duration_since(inst, other)
    IN  /\ elapsed.some
        /\ tLast' = TimeRec("round_trip", other, inst, UnwrapD(elapsed),
                            checked_add(other, UnwrapD(elapsed)), NoneI, elapsed)
        /\ UNCHANGED <<inst, other, tqVars, sigVars, auxVars>>

TimeNext ==
    \/ TimeNow
    \/ TimeCopy
    \/ TimeCheckedAdd
    \/ TimeAddTwice
    \/ TimeDurationSince
    \/ TimeSaturatingSince
    \/ TimeRoundTrip

\* The Instant registers while another part of the system is examined
TimeParked ==
    /\ inst = ZeroI
    /\ other = ZeroI
    /\ tLast = TimeRec("none", ZeroI, ZeroI, ZeroD, NoneI, NoneI, NoneD)

(***************************************************************************)
(* TimerQueue (src/rtfm/src/tq.rs)                                         *)
(***************************************************************************)

\* N, the capacity of the BinaryHeap<NotReady<T>, N, Min>
TQ_CAPACITY == 3

\* The most signals of the timer handler held pending at once
MaxWake == 1

\* The deadlines and clock values the queue is driven with
TQInstants == {MkInstant(0, 500000000), MkInstant(1, 0), MkInstant(1, 500000000)}

TQTasks == {0, 1}
TQIndices == {0}

\* struct NotReady { index, instant, task }
NotReady == [index : TQIndices, instant : TQInstants, task : TQTasks]

\* impl Ord for NotReady, as a bug would write it: by task, then deadline
NotReadyCmpByTask(x, y) ==
    IF x.task < y.task THEN "Less"
    ELSE IF x.task > y.task THEN "Greater"
    ELSE InstantCmp(x.instant, y.instant)

\* impl Ord for NotReady: self.instant.cmp(&other.instant)
NotReadyCmp(x, y) == InstantCmp(x.instant, y.instant)

Swap(h, i, j) == [h EXCEPT ![i] = h[j], ![j] = h[i]]

\* BinaryHeap::sift_up(0, pos) of a Min heap: the element moves up while it
\* compares Less than its parent
RECURSIVE SiftUp(_, _)
SiftUp(h, pos) ==
    IF pos > 1 /\ NotReadyCmp(h[pos], h[pos \div 2]) = "Less"
    THEN SiftUp(Swap(h, pos, pos \div 2), pos \div 2)
    ELSE h

\* BinaryHeap::sift_down_to_bottom(0): the hole moves down to a leaf through
\* the smaller child (the right one on a tie), then the element sifts up
RECURSIVE SiftDownToBottom(_, _)
SiftDownToBottom(h, pos) ==
    LET child == 2 * pos
        right == child + 1
        pick == IF right <= Len(h) /\ NotReadyCmp(h[child], h[right]) # "Less"
                THEN right ELSE child
    IN  IF child <= Len(h)
        THEN SiftDownToBottom(Swap(h, pos, pick), pick)
        ELSE SiftUp(h, pos)

\* BinaryHeap::push_unchecked
PushUnchecked(h, nr) == SiftUp(Append(h, nr), Len(h) + 1)

\* BinaryHeap::pop_unchecked: the data left behind (the root is returned)
PopUnchecked(h) ==
    IF Len(h) = 1 THEN <<>>
    ELSE SiftDownToBottom([i \in 1..(Len(h) - 1) |->
                              IF i = 1 THEN h[Len(h)] ELSE h[i]], 1)

\* The wake test of enqueue_unchecked as a bug would write it: no signal
\* for the first entry of an empty queue
EarlierThanHeadOrFalse(h, nr) ==
    IF Len(h) = 0 THEN FALSE ELSE InstantLt(nr.instant, h[1].instant)

\* The wake test of enqueue_unchecked as a bug would write it: <= for <
EarlierOrEqualThanHead(h, nr) ==
    IF Len(h) = 0 THEN TRUE ELSE InstantLe(nr.instant, h[1].instant)

\* The wake test of enqueue_unchecked:
\* self.0.peek().map(|head| nr.instant < head.instant).unwrap_or(true)
EarlierThanHead(h, nr) ==
    IF Len(h) = 0 THEN TRUE ELSE InstantLt(nr.instant, h[1].instant)

\* The ready test of dequeue as a bug would write it: the comparison turned
ReadyTurned(now, instant) == InstantGe(instant, now)

\* The ready test of dequeue: now >= instant
Ready(now, instant) == InstantGe(now, instant)

NoTimer == [armed |-> FALSE, abs |-> FALSE, at |-> ZeroI]
\* timer_settime(timer_id, TIMER_ABSTIME, it_interval = 0, it_value = instant)
ArmAbs(instant) == [armed |-> TRUE, abs |-> TRUE, at |-> instant]

NoEntry == [some |-> FALSE, task |-> 0, index |-> 0, instant |-> ZeroI]
SomeEntry(nr) ==
    [some |-> TRUE, task |-> nr.task, index |-> nr.index, instant |-> nr.instant]

\* The record of one call: nr the entry passed, before the heap it found, at
\* the clock it sampled, woke whether it sent the signal, ret what it
\* returned, armed the timer_settime call it made, full whether it found the
\* heap at capacity
TQRec(op, nr, before, at, woke, ret, armed, full) ==
    [op |-> op, nr |-> nr, before |-> before, at |-> at, woke |-> woke,
     ret |-> ret, armed |-> armed, full |-> full]

TQInit ==
    /\ heap = <<>>
    /\ clock = MkInstant(0, 500000000)
    /\ timer = NoTimer
    /\ wake = 0
    /\ tqUB = FALSE
    /\ tqLast = TQRec("none", NoEntry, <<>>, ZeroI, FALSE, NoEntry, NoTimer, FALSE)

\* What push_unchecked can leave of a full heap: the write lands past the
\* buffer, so the entry may be kept, dropped, or the data lost
FullPushOutcomes(h, nr) == {PushUnchecked(h, nr), h, <<>>}

\* TimerQueue::enqueue_unchecked(nr, tgid_tid, signo): kill / tgkill when the
\* entry is earlier than the head, then push_unchecked
TQEnqueueUnchecked ==
    /\ ~tqUB
    /\ \E nr \in NotReady :
        LET woke == EarlierThanHead(heap, nr)
            full == Len(heap) >= TQ_CAPACITY
        IN  /\ woke => wake < MaxWake
            /\ wake' = IF woke THEN wake + 1 ELSE wake
            /\ IF full
               THEN /\ heap' \in FullPushOutcomes(heap, nr)
                    /\ tqUB' = TRUE
               ELSE /\ heap' = PushUnchecked(heap, nr)
                    /\ tqUB' = FALSE
            /\ tqLast' = TQRec("enqueue", SomeEntry(nr), heap, clock, woke,
                               NoEntry, NoTimer, full)
            /\ UNCHANGED <<clock, timer, timeVars, sigVars, auxVars>>

\* TimerQueue::dequeue(timer_id)
DequeueCall ==
    /\ IF Len(heap) > 0
       THEN LET instant == heap[1].instant
                now == clock
            IN  IF Ready(now, instant)
                THEN /\ heap' = PopUnchecked(heap)
                     /\ tqLast' = TQRec("dequeue", NoEntry, heap, now, FALSE,
                                        SomeEntry(heap[1]), NoTimer, FALSE)
                     /\ UNCHANGED timer
                ELSE /\ timer' = ArmAbs(instant)
                     /\ tqLast' = TQRec("dequeue", NoEntry, heap, now, FALSE,
                                        NoEntry, ArmAbs(instant), FALSE)
                     /\ UNCHANGED heap
       ELSE /\ tqLast' = TQRec("dequeue", NoEntry, heap, clock, FALSE,
                               NoEntry, NoTimer, FALSE)
            /\ UNCHANGED <<heap, timer>>
    /\ UNCHANGED <<clock, wake, tqUB>>

\* A dequeue call made at any moment
TQDequeue ==
    /\ ~tqUB
    /\ DequeueCall
    /\ UNCHANGED <<timeVars, sigVars, auxVars>>

\* CLOCK_MONOTONIC advances
TQTick ==
    /\ \E t \in TQInstants : InstantLt(clock, t) /\ clock' = t
    /\ UNCHANGED <<heap, timer, wake, tqUB, tqLast, timeVars, sigVars, auxVars>>

\* The one-shot timer expires: its signal SIGRTMIN + signo becomes pending
TQTimerExpires ==
    /\ timer.armed
    /\ InstantGe(clock, timer.at)
    /\ wake < MaxWake
    /\ timer' = NoTimer
    /\ wake' = wake + 1
    /\ UNCHANGED <<heap, clock, tqUB, tqLast, timeVars, sigVars, auxVars>>

\* The timer handler takes one pending signal
TQSignalTaken ==
    /\ wake > 0
    /\ wake' = wake - 1
    /\ UNCHANGED <<heap, clock, timer, tqUB, tqLast, timeVars, sigVars, auxVars>>

TQNext ==
    \/ TQEnqueueUnchecked
    \/ TQDequeue
    \/ TQTick
    \/ TQTimerExpires
    \/ TQSignalTaken

(***************************************************************************)
(* Signal fabric and priority ceiling engine (src/src/export.rs)           *)
(***************************************************************************)

\* nc::SIGRTMIN, the kernel's lowest real-time signal number
SIGRTMIN == 32

\* The bits of a sigset_t word (usize)
WordBits == 0..63

\* The most activations sent to the core from outside it (another core, the
\* timer) in one run
MaxArrivals == 2

\* The most signals of one number queued at once
MaxPending == 1

\* A sigset_t is the set of its 1 bits: signal s is bit s - 1
\* (1 << n) - 1
Ones(n) == 0..(n - 1)
\* m << k, the bits shifted out of the word dropped
Shl(m, k) == {b + k : b \in m} \cap WordBits
\* m >> k
Shr(m, k) == {b - k : b \in {x \in m : x >= k}}
\* m ^ n
Xor(m, n) == (m \ n) \cup (n \ m)
\* a.wrapping_sub(b) on u8
WrappingSubU8(a, b) == (a - b + 256) % 256

SigBit(s) == s - 1

\* init_runtime(Some(signo_max)): ((1 << (signo + 1)) - 1) << (SIGRTMIN - 1)
InitRuntimeMask(signo_max) == Shl(Ones(signo_max + 1), SIGRTMIN - 1)

\* The sigset of mask() as a bug would write it: one position too high
MaskBitsOffByOne(r, current, ceiling) ==
    LET len == WrappingSubU8(r.end, r.start)
    IN  Shl(Ones(ceiling - current), SIGRTMIN + (r.start + len - ceiling))

\* The sigset of mask() as a bug would write it: ceiling - current + 1 bits
MaskBitsOneMore(r, current, ceiling) ==
    LET len == WrappingSubU8(r.end, r.start)
    IN  Shl(Ones(ceiling - current + 1), SIGRTMIN - 1 + (r.start + len - ceiling))

\* The sigset of mask(start..end, current, ceiling, _):
\* ((1 << (ceiling - current)) - 1) << (SIGRTMIN - 1 + (start + len - ceiling))
MaskBits(r, current, ceiling) ==
    LET len == WrappingSubU8(r.end, r.start)
    IN  Shl(Ones(ceiling - current), SIGRTMIN - 1 + (r.start + len - ceiling))

\* rt_sigprocmask(SIG_BLOCK | SIG_UNBLOCK, &mask) on the thread's mask
SigProcMask(old, m, block) == IF block THEN old \cup m ELSE old \ m

\* mask(range, current, ceiling, block)
Mask(old, r, current, ceiling, block) ==
    SigProcMask(old, MaskBits(r, current, ceiling), block)

\* register: the signal the handler of `priority` is installed on,
\* SIGRTMIN + end.wrapping_sub(priority)
RegisterSignal(r, priority) == SIGRTMIN + WrappingSubU8(r.end, priority)

\* register's sa_mask as a bug would write it: no signal blocked
RegisterMaskEmpty(r, priority) == {}

\* register: the sa_mask of the handler of `priority`,
\* (mask ^ (mask >> (priority - 1))) << (start + SIGRTMIN - 1), mask = (1 << len) - 1
RegisterMask(r, priority) ==
    LET len == WrappingSubU8(r.end, r.start)
        m == Ones(len)
    IN  Shl(Xor(m, Shr(m, priority - 1)), r.start + SIGRTMIN - 1)

\* enqueue: the payload, (usize::from(task) << 8) + usize::from(index)
Payload(task, index) == task * 256 + index
\* the handler's decoding of the payload
PayloadTask(v) == v \div 256

\* enqueue: the signal sent, SIGRTMIN + i32::from(signo)
EnqueueSignal(signo) == SIGRTMIN + signo

\* The signo the generated spawn code passes to enqueue for a task of
\* `priority`: the one register installed that priority's handler on
SignoOf(r, priority) == WrappingSubU8(r.end, priority)

(***************************************************************************)
(* The applications: task tables as the code generator fixes them          *)
(***************************************************************************)

Println(e) == [op |-> "print", arg |-> e, res |-> "", task |-> 0]
Lock(r) == [op |-> "lock", arg |-> "", res |-> r, task |-> 0]
Unlock == [op |-> "unlock", arg |-> "", res |-> "", task |-> 0]
SpawnTask(t) == [op |-> "spawn", arg |-> "", res |-> "", task |-> t]

\* rtfm/examples/lock.rs: foo = 0 (priority 1), bar = 1 (priority 2, owns
\* SHARED directly), baz = 2 (priority 3); init spawns foo, idle exits
LockExample ==
    [name |-> "lock",
     tasks |-> <<
        [prio |-> 1, direct |-> {},
         script |-> <<Println("B"), Lock("SHARED"), SpawnTask(1), Println("C"),
                      SpawnTask(2), Unlock, Println("F")>>],
        [prio |-> 2, direct |-> {"SHARED"}, script |-> <<Println("E")>>],
        [prio |-> 3, direct |-> {}, script |-> <<Println("D")>> ] >>,
     init |-> <<0>>,
     idle |-> "exit"]

\* An application with nested and consecutive critical sections: task 0
\* (priority 1) nests R2 inside R1 and then locks R2 again, task 1
\* (priority 2) nests R1 inside R2, task 2 (priority 3) owns R2 directly
NestedExample ==
    [name |-> "nested",
     tasks |-> <<
        [prio |-> 1, direct |-> {},
         script |-> <<Lock("R1"), Lock("R2"), SpawnTask(1), Unlock, Unlock,
                      Lock("R2"), Unlock>>],
        [prio |-> 2, direct |-> {},
         script |-> <<Lock("R2"), Lock("R1"), Unlock, Unlock>>],
        [prio |-> 3, direct |-> {"R2"}, script |-> <<SpawnTask(0)>> ] >>,
     init |-> <<0>>,
     idle |-> "pause"]

\* An application whose middle task locks a resource at its own priority,
\* the resource's ceiling: task 0 (priority 1) and task 1 (priority 2) share
\* R1, task 2 (priority 3) shares nothing
CeilingExample ==
    [name |-> "ceiling",
     tasks |-> <<
        [prio |-> 1, direct |-> {},
         script |-> <<Lock("R1"), SpawnTask(1), Unlock>>],
        [prio |-> 2, direct |-> {},
         script |-> <<Lock("R1"), SpawnTask(2), Unlock>>],
        [prio |-> 3, direct |-> {}, script |-> <<Println("Z")>> ] >>,
     init |-> <<0>>,
     idle |-> "pause"]

Apps == {LockExample, NestedExample, CeilingExample}

\* The signal ranges a core is given: the only core's, and a second core's
Ranges == {[start |-> 0, end |-> 3], [start |-> 3, end |-> 6]}

TaskIds(a) == 0..(Len(a.tasks) - 1)
TaskOf(a, t) == a.tasks[t + 1]
Prios(r) == 1..WrappingSubU8(r.end, r.start)

Max(S) == CHOOSE x \in S : \A y \in S : y <= x

\* Whether task t of application a accesses resource res
Uses(a, t, res) ==
    \/ res \in TaskOf(a, t).direct
    \/ \E i \in 1..Len(TaskOf(a, t).script) :
          TaskOf(a, t).script[i].op = "lock" /\ TaskOf(a, t).script[i].res = res

\* The ceiling the code generator gives a resource: the highest static
\* priority among the tasks that access it
Ceiling(a, res) == Max({TaskOf(a, t).prio : t \in {u \in TaskIds(a) : Uses(a, u, res)}})

(***************************************************************************)
(* One core: its contexts, its signal mask and its pending signals         *)
(***************************************************************************)

\* The real-time signals of the core's range
Signals(r) == {SIGRTMIN + k : k \in r.start..(r.end - 1)}

\* The kernel's choice turned round: the highest-numbered signal first
HighestNumbered(S) == CHOOSE x \in S : \A y \in S : y <= x

\* The kernel takes the lowest-numbered deliverable real-time signal first
Min(S) == CHOOSE x \in S : \A y \in S : x <= y

\* An execution context: the idle context (task -1, priority 0) or a signal
\* handler running task `task`; cell is its Priority cell, locks its lock
\* calls in progress, saved the signal mask its return restores
\* The Priority cell a context starts with: Priority::new(PRIORITY), the
\* static priority of its task (0 for idle)
HandlerCell(prio) == prio

Frame(task, prio, phase, saved) ==
    [task |-> task, prio |-> prio, pc |-> 1, phase |-> phase,
     cell |-> HandlerCell(prio), locks |-> <<>>, saved |-> saved]

\* A lock call in progress: current the priority read on entry, slow whether
\* it took the masking path, body whether its body is executing, before the
\* signal mask on entry, bits the signals its mask call newly blocked
LockRec(res, current, ceiling, slow, body, before, bits) ==
    [res |-> res, current |-> current, ceiling |-> ceiling, slow |-> slow,
     body |-> body, before |-> before, bits |-> bits]

NoLockLast ==
    [valid |-> FALSE, slow |-> FALSE, cellBefore |-> 0, cellAfter |-> 0, maskBefore |-> {},
     maskAfter |-> {}, depth |-> 0]

NoDelivery == [valid |-> FALSE, among |-> {}, sig |-> 0, prio |-> 0, onto |-> 0]

Top == stack[Len(stack)]
SetTop(f) == [stack EXCEPT ![Len(stack)] = f]

\* The signal the activation of a task of priority p is sent on
TaskSignal(p) == EnqueueSignal(SignoOf(range, p))

\* The priority whose handler register installed on signal s
HandlerPrio(s) == CHOOSE p \in Prios(range) : RegisterSignal(range, p) = s

\* The pending signals the thread does not block
Deliverable == {s \in DOMAIN pending : pending[s] # <<>> /\ SigBit(s) \notin blocked}

\* User code executes only when no signal is deliverable
Executing == ~exited /\ Deliverable = {}

\* The instruction the top context is at
AtInstr(op) ==
    /\ Executing
    /\ Len(stack) > 1
    /\ Top.phase = "run"
    /\ Top.pc <= Len(TaskOf(app, Top.task).script)
    /\ TaskOf(app, Top.task).script[Top.pc].op = op

Instr == TaskOf(app, Top.task).script[Top.pc]

\* The critical sections of tasks below priority p whose mask call blocked
\* the signal of priority p and whose body has not ended
HoldingBack(stk, p) ==
    {ik \in UNION {{<<i, k>> : k \in 1..Len(stk[i].locks)} : i \in 1..Len(stk)} :
      LET i == ik[1]
          k == ik[2]
      IN
        /\ stk[i].prio < p
        /\ stk[i].locks[k].body
        /\ SigBit(TaskSignal(p)) \in stk[i].locks[k].bits}

\* The state after init_runtime, the register calls and init: every signal
\* is blocked and the tasks init has spawned are pending
SigInit ==
    /\ app \in Apps
    /\ range \in Ranges
    /\ stack = <<Frame(-1, 0, "boot", {})>>
    /\ blocked = InitRuntimeMask(range.end - 1)
    /\ pending = [s \in Signals(range) |->
          LET ts == SelectSeq(app.init,
                        LAMBDA t : TaskSignal(TaskOf(app, t).prio) = s)
          IN  [i \in 1..Len(ts) |-> Payload(ts[i], 0)]]
    /\ trace = <<>>
    /\ arrivals = 0
    /\ exited = FALSE
    /\ csCount = [p \in Prios(range) |-> 0]
    /\ lockLast = NoLockLast
    /\ dLast = NoDelivery

\* The core while another part of the system is examined
SigParked ==
    /\ app = LockExample
    /\ range = [start |-> 0, end |-> 3]
    /\ stack = <<>>
    /\ blocked = {}
    /\ pending = <<>>
    /\ trace = <<>>
    /\ arrivals = 0
    /\ exited = TRUE
    /\ csCount = <<>>
    /\ lockLast = NoLockLast
    /\ dLast = NoDelivery

\* enqueue(tgid, tid, signo, task, index): the signal is queued with its
\* payload; a full queue refuses it
Enqueued(pend, prio, task) ==
    LET s == TaskSignal(prio)
    IN  IF Len(pend[s]) < MaxPending
        THEN [pend EXCEPT ![s] = Append(@, Payload(task, 0))]
        ELSE pend

\* csCount once an activation of priority p has been queued
Counted(stk, pend, p) ==
    IF pend[TaskSignal(p)] = <<>>
    THEN [csCount EXCEPT ![p] = Cardinality(HoldingBack(stk, p))]
    ELSE csCount

\* After init the generated code unblocks the core's signals:
\* mask(range, 0, len, false)
PostInit ==
    /\ Executing
    /\ Len(stack) = 1
    /\ Top.phase = "boot"
    /\ blocked' = Mask(blocked, range, 0, WrappingSubU8(range.end, range.start), FALSE)
    /\ stack' = SetTop([Top EXCEPT !.phase = "idle"])
    /\ UNCHANGED <<app, range, pending, trace, arrivals, exited, csCount, lockLast, dLast>>
    /\ UNCHANGED <<timeVars, tqVars, auxVars>>

\* idle of lock.rs: process::exit(0)
IdleExit ==
    /\ Executing
    /\ Len(stack) = 1
    /\ Top.phase = "idle"
    /\ app.idle = "exit"
    /\ exited' = TRUE
    /\ UNCHANGED <<app, range, stack, blocked, pending, trace, arrivals, csCount, lockLast, dLast>>
    /\ UNCHANGED <<timeVars, tqVars, auxVars>>

\* Another core, or the timer handler, activates a task of this core
Arrive ==
    /\ ~exited
    /\ arrivals < MaxArrivals
    /\ \E t \in TaskIds(app) :
        LET p == TaskOf(app, t).prio
        IN  /\ Len(pending[TaskSignal(p)]) < MaxPending
            /\ pending' = Enqueued(pending, p, t)
            /\ csCount' = Counted(stack, pending, p)
    /\ arrivals' = arrivals + 1
    /\ UNCHANGED <<app, range, stack, blocked, trace, exited, lockLast, dLast>>
    /\ UNCHANGED <<timeVars, tqVars, auxVars>>

\* The kernel delivers the lowest-numbered deliverable signal to the handler
\* register installed: the handler runs with sa_mask and its own signal
\* blocked, on a Priority cell of its static priority
Deliver ==
    /\ ~exited
    /\ Deliverable # {}
    /\ LET s == Min(Deliverable)
           p == HandlerPrio(s)
           t == PayloadTask(Head(pending[s]))
       IN  /\ pending' = [pending EXCEPT ![s] = Tail(@)]
           /\ stack' = Append(stack, Frame(t, p, "run", blocked))
           /\ blocked' = blocked \cup RegisterMask(range, p) \cup {SigBit(s)}
           /\ csCount' = IF Tail(pending[s]) = <<>>
                         THEN [csCount EXCEPT ![p] = 0] ELSE csCount
           /\ dLast' = [valid |-> TRUE, among |-> Deliverable, sig |-> s,
                        prio |-> p, onto |-> Top.prio]
    /\ UNCHANGED <<app, range, trace, arrivals, exited, lockLast>>
    /\ UNCHANGED <<timeVars, tqVars, auxVars>>

\* The handler returns: sigreturn restores the interrupted context's mask
Return ==
    /\ Executing
    /\ Len(stack) > 1
    /\ Top.phase = "run"
    /\ Top.pc > Len(TaskOf(app, Top.task).script)
    /\ stack' = SubSeq(stack, 1, Len(stack) - 1)
    /\ blocked' = Top.saved
    /\ UNCHANGED <<app, range, pending, trace, arrivals, exited, csCount, lockLast, dLast>>
    /\ UNCHANGED <<timeVars, tqVars, auxVars>>

\* println!
TaskPrintln ==
    /\ AtInstr("print")
    /\ trace' = Append(trace, Instr.arg)
    /\ stack' = SetTop([Top EXCEPT !.pc = @ + 1])
    /\ UNCHANGED <<app, range, blocked, pending, arrivals, exited, csCount, lockLast, dLast>>
    /\ UNCHANGED <<timeVars, tqVars, auxVars>>

\* spawn.task().ok(): enqueue to the own process; a task without a free
\* slot is not spawned
TaskSpawn ==
    /\ AtInstr("spawn")
    /\ LET p == TaskOf(app, Instr.task).prio
       IN  /\ pending' = Enqueued(pending, p, Instr.task)
           /\ csCount' = IF pending' # pending
                         THEN Counted(stack, pending, p) ELSE csCount
    /\ stack' = SetTop([Top EXCEPT !.pc = @ + 1])
    /\ UNCHANGED <<app, range, blocked, trace, arrivals, exited, lockLast, dLast>>
    /\ UNCHANGED <<timeVars, tqVars, auxVars>>

\* lock without its first mask call, as a bug would write it
LockMaskSkipped(old, r, current, ceiling) == old

\* lock: mask(range.clone(), current, ceiling, true)
LockMaskCall(old, r, current, ceiling) == Mask(old, r, current, ceiling, TRUE)

\* lock without its second mask call, as a bug would write it
UnlockMaskSkipped(old, r, current, ceiling) == old

\* lock: mask(range, current, ceiling, false)
UnlockMaskCall(old, r, current, ceiling) == Mask(old, r, current, ceiling, FALSE)

\* lock's last statement as a bug would write it: back to the static priority
RestoredToBase(frame, current) == frame.prio

\* lock: priority.set(current)
Restored(frame, current) == current

\* lock's test as a bug would write it: the masking path also at the ceiling
NeedsMaskAtCeiling(current, ceiling) == current <= ceiling

\* lock: if current < ceiling
NeedsMask(current, ceiling) == current < ceiling

\* lock: let current = priority.get(); if current < ceiling
\* { priority.set(ceiling); .. } else { f(&mut *ptr) }
LockEnter ==
    /\ AtInstr("lock")
    /\ LET current == Top.cell
           ceiling == Ceiling(app, Instr.res)
       IN  IF NeedsMask(current, ceiling)
           THEN stack' = SetTop([Top EXCEPT
                    !.cell = ceiling,
                    !.phase = "mask",
                    !.locks = Append(@, LockRec(Instr.res, current, ceiling,
                                                TRUE, FALSE, blocked, {}))])
           ELSE stack' = SetTop([Top EXCEPT
                    !.pc = @ + 1,
                    !.locks = Append(@, LockRec(Instr.res, current, ceiling,
                                                FALSE, TRUE, blocked, {}))])
    /\ UNCHANGED <<app, range, blocked, pending, trace, arrivals, exited, csCount, lockLast, dLast>>
    /\ UNCHANGED <<timeVars, tqVars, auxVars>>

\* lock: mask(range.clone(), current, ceiling, true); the body starts
LockMask ==
    /\ Executing
    /\ Len(stack) > 1
    /\ Top.phase = "mask"
    /\ LET rec == Top.locks[Len(Top.locks)]
           new == LockMaskCall(blocked, range, rec.current, rec.ceiling)
       IN  /\ blocked' = new
           /\ stack' = SetTop([Top EXCEPT
                    !.pc = @ + 1,
                    !.phase = "run",
                    !.locks[Len(Top.locks)] =
                        [rec EXCEPT !.body = TRUE, !.bits = new \ blocked]])
           /\ csCount' = [p \in Prios(range) |->
                 IF /\ Top.prio < p
                    /\ SigBit(TaskSignal(p)) \in new \ blocked
                    /\ pending[TaskSignal(p)] # <<>>
                 THEN csCount[p] + 1 ELSE csCount[p]]
    /\ UNCHANGED <<app, range, pending, trace, arrivals, exited, lockLast, dLast>>
    /\ UNCHANGED <<timeVars, tqVars, auxVars>>

\* lock: the body has ended; mask(range, current, ceiling, false) on the
\* masking path, the return of f's result on the other
UnlockEnter ==
    /\ AtInstr("unlock")
    /\ LET rec == Top.locks[Len(Top.locks)]
       IN  IF rec.slow
           THEN /\ blocked' = UnlockMaskCall(blocked, range, rec.current, rec.ceiling)
                /\ stack' = SetTop([Top EXCEPT
                        !.phase = "restore",
                        !.locks[Len(Top.locks)] = [rec EXCEPT !.body = FALSE]])
                /\ UNCHANGED lockLast
           ELSE /\ stack' = SetTop([Top EXCEPT
                        !.pc = @ + 1,
                        !.locks = SubSeq(@, 1, Len(@) - 1)])
                /\ lockLast' = [valid |-> TRUE, slow |-> FALSE,
                                cellBefore |-> rec.current, cellAfter |-> Top.cell,
                                maskBefore |-> rec.before, maskAfter |-> blocked,
                                depth |-> Len(Top.locks)]
                /\ UNCHANGED blocked
    /\ UNCHANGED <<app, range, pending, trace, arrivals, exited, csCount, dLast>>
    /\ UNCHANGED <<timeVars, tqVars, auxVars>>

\* lock: priority.set(current); the call returns
UnlockRestore ==
    /\ Executing
    /\ Len(stack) > 1
    /\ Top.phase = "restore"
    /\ LET rec == Top.locks[Len(Top.locks)]
           cell == Restored(Top, rec.current)
       IN  /\ stack' = SetTop([Top EXCEPT
                    !.pc = @ + 1,
                    !.phase = "run",
                    !.cell = cell,
                    !.locks = SubSeq(@, 1, Len(@) - 1)])
           /\ lockLast' = [valid |-> TRUE, slow |-> TRUE,
                           cellBefore |-> rec.current, cellAfter |-> cell,
                           maskBefore |-> rec.before, maskAfter |-> blocked,
                           depth |-> Len(Top.locks)]
    /\ UNCHANGED <<app, range, blocked, pending, trace, arrivals, exited, csCount, dLast>>
    /\ UNCHANGED <<timeVars, tqVars, auxVars>>

SigNext ==
    \/ PostInit
    \/ IdleExit
    \/ Arrive
    \/ Deliver
    \/ Return
    \/ TaskPrintln
    \/ TaskSpawn
    \/ LockEnter
    \/ LockMask
    \/ UnlockEnter
    \/ UnlockRestore

(***************************************************************************)
(* The signal fabric on its own: mask and register called with any         *)
(* arguments their contract allows                                         *)
(***************************************************************************)

\* The ranges the calls are made with: cores of one, two and three
\* priorities, at the bottom of the real-time signals and above another core
FabricRanges ==
    {[start |-> 0, end |-> 3], [start |-> 3, end |-> 6],
     [start |-> 1, end |-> 3], [start |-> 5, end |-> 6]}

NoHandler == [installed |-> FALSE, priority |-> 0, sa_mask |-> {}]

\* rt_sigaction(sig, &sigaction_t { sa_handler, sa_mask, .. })
Installed(priority, sa_mask) ==
    [installed |-> TRUE, priority |-> priority, sa_mask |-> sa_mask]

\* The record of one call: for mask its arguments, the thread's mask it
\* found and the sigset it passed; for register the priority and the signal
FabRec(op, current, ceiling, block, before, bits, priority, sig) ==
    [op |-> op, current |-> current, ceiling |-> ceiling, block |-> block,
     before |-> before, bits |-> bits, priority |-> priority, sig |-> sig]

NoFabCall == FabRec("none", 0, 0, FALSE, {}, {}, 0, 0)

\* The fabric while another part of the system is examined
FabricParked ==
    /\ sigact = <<>>
    /\ fLast = NoFabCall

\* A core after init_runtime: its signals blocked, no handler installed
FabricInit ==
    /\ app = LockExample
    /\ range \in FabricRanges
    /\ stack = <<>>
    /\ blocked = InitRuntimeMask(range.end - 1)
    /\ pending = <<>>
    /\ trace = <<>>
    /\ arrivals = 0
    /\ exited = TRUE
    /\ csCount = <<>>
    /\ lockLast = NoLockLast
    /\ dLast = NoDelivery
    /\ sigact = [s \in Signals(range) |-> NoHandler]
    /\ fLast = NoFabCall

\* mask(range, current, ceiling, block) with current < ceiling <= end - start
FabricMask ==
    \E current \in 0..WrappingSubU8(range.end, range.start),
       ceiling \in Prios(range), block \in BOOLEAN :
        /\ current < ceiling
        /\ blocked' = Mask(blocked, range, current, ceiling, block)
        /\ fLast' = FabRec("mask", current, ceiling, block, blocked,
                           MaskBits(range, current, ceiling), 0, 0)
        /\ UNCHANGED <<app, range, stack, pending, trace, arrivals, exited,
                       csCount, lockLast, dLast, sigact>>
        /\ UNCHANGED <<timeVars, tqVars, barVars, liveVars>>

\* register(range, priority, sigaction)
FabricRegister ==
    \E priority \in Prios(range) :
        LET sig == RegisterSignal(range, priority)
        IN  /\ sigact' = [sigact EXCEPT
                    ![sig] = Installed(priority, RegisterMask(range, priority))]
            /\ fLast' = FabRec("register", 0, 0, FALSE, blocked, {}, priority, sig)
            /\ UNCHANGED <<sigVars, timeVars, tqVars, barVars, liveVars>>

FabricNext ==
    \/ FabricMask
    \/ FabricRegister

(***************************************************************************)
(* The boot barrier (src/src/export.rs), on release/acquire memory         *)
(***************************************************************************)

\* The most writes the releasing core makes to the data it publishes
MaxWrites == 2

\* The cores that wait at the barrier
Waiters == {1, 2}

\* store(true, Ordering::Relaxed), as a bug would write release: the flag
\* becomes visible on its own, the earlier writes stay where they are
StoreRelaxed(mem, buf) == mem

\* self.inner.store(true, Ordering::Release): every write the core made
\* before the store is visible to whoever reads the flag set by it
StoreRelease(mem, buf) == buf

\* self.inner.load(Ordering::Acquire) has read true: the reads that follow
\* it see memory as it is then, not what the core had read ahead
ReadAfterAcquire(mem, ahead) == mem

BarCore(pc, ahead, seen) == [pc |-> pc, ahead |-> ahead, seen |-> seen]

\* Barrier::new(): AtomicBool::new(false)
BarInit ==
    /\ bFlag = FALSE
    /\ bMem = 0
    /\ bBuf = 0
    /\ bRel = [called |-> FALSE, data |-> 0]
    /\ bCore = [c \in Waiters |-> BarCore("boot", 0, 0)]

\* The barrier while another part of the system is examined
BarParked ==
    /\ bFlag = FALSE
    /\ bMem = 0
    /\ bBuf = 0
    /\ bRel = [called |-> FALSE, data |-> 0]
    /\ bCore = <<>>

\* The releasing core writes its data (before or after release)
BarWrite ==
    /\ bBuf < MaxWrites
    /\ bBuf' = bBuf + 1
    /\ UNCHANGED <<bFlag, bMem, bRel, bCore>>
    /\ UNCHANGED <<timeVars, tqVars, sigVars, fabVars, liveVars>>

\* A write of the releasing core reaches the memory the other cores read
BarDrain ==
    /\ bMem < bBuf
    /\ bMem' = bMem + 1
    /\ UNCHANGED <<bFlag, bBuf, bRel, bCore>>
    /\ UNCHANGED <<timeVars, tqVars, sigVars, fabVars, liveVars>>

\* Barrier::release
BarRelease ==
    /\ bFlag' = TRUE
    /\ bMem' = StoreRelease(bMem, bBuf)
    /\ bRel' = IF bRel.called THEN bRel ELSE [called |-> TRUE, data |-> bBuf]
    /\ UNCHANGED <<bBuf, bCore>>
    /\ UNCHANGED <<timeVars, tqVars, sigVars, fabVars, liveVars>>

\* A core reads the data before it waits
BarReadAhead ==
    \E c \in Waiters :
        /\ bCore[c].pc = "boot"
        /\ bCore' = [bCore EXCEPT ![c] = BarCore("boot", bMem, @.seen)]
        /\ UNCHANGED <<bFlag, bMem, bBuf, bRel>>
        /\ UNCHANGED <<timeVars, tqVars, sigVars, fabVars, liveVars>>

\* Barrier::wait is called
BarWaitCall ==
    \E c \in Waiters :
        /\ bCore[c].pc \in {"boot", "past"}
        /\ bCore' = [bCore EXCEPT ![c] = BarCore("wait", @.ahead, @.seen)]
        /\ UNCHANGED <<bFlag, bMem, bBuf, bRel>>
        /\ UNCHANGED <<timeVars, tqVars, sigVars, fabVars, liveVars>>

\* Barrier::wait: while !self.inner.load(Ordering::Acquire) {}; once the
\* load has read true the call returns and the core reads the data
BarWaitLoad ==
    \E c \in Waiters :
        /\ bCore[c].pc = "wait"
        /\ bCore' = IF bFlag
                    THEN [bCore EXCEPT ![c] =
                            BarCore("past", @.ahead, ReadAfterAcquire(bMem, @.ahead))]
                    ELSE bCore
        /\ UNCHANGED <<bFlag, bMem, bBuf, bRel>>
        /\ UNCHANGED <<timeVars, tqVars, sigVars, fabVars, liveVars>>

BarNext ==
    \/ BarWrite
    \/ BarDrain
    \/ BarRelease
    \/ BarReadAhead
    \/ BarWaitCall
    \/ BarWaitLoad

(***************************************************************************)
(* The TimerQueue as the timer handler and the spawn code use it           *)
(***************************************************************************)

\* The most enqueue_unchecked calls of one run
MaxEnqueues == 3

\* The entries the spawn code enqueues: one task at every deadline, and a
\* second task at one of the deadlines
LiveEntries == {nr \in NotReady : nr.task = 0 \/ nr.instant = MkInstant(1, 0)}

\* No enqueue_unchecked call is between its signal and its push
NotPushing ==
    [pushing |-> FALSE, woke |-> FALSE,
     nr |-> [index |-> 0, instant |-> ZeroI, task |-> 0]]

LiveInit ==
    /\ tqh = "idle"
    /\ enq = NotPushing
    /\ tqn = 0

\* The timer handler's loop while another part of the system is examined
LiveParked == LiveInit

\* enqueue_unchecked up to its push, called with spare capacity and with the
\* timer handler's signal blocked: kill / tgkill when the entry is earlier
\* than the head
LiveEnqueueSignal ==
    /\ ~enq.pushing
    /\ tqn < MaxEnqueues
    /\ Len(heap) < TQ_CAPACITY
    /\ \E nr \in LiveEntries :
        LET woke == EarlierThanHead(heap, nr)
        IN  /\ woke => wake < MaxWake
            /\ wake' = IF woke THEN wake + 1 ELSE wake
            /\ enq' = [pushing |-> TRUE, woke |-> woke, nr |-> nr]
    /\ tqn' = tqn + 1
    /\ UNCHANGED <<heap, clock, timer, tqUB, tqLast, tqh>>
    /\ UNCHANGED <<timeVars, sigVars, fabVars, barVars>>

\* enqueue_unchecked: self.0.push_unchecked(nr); the caller then unblocks
\* the signal
LiveEnqueuePush ==
    /\ enq.pushing
    /\ heap' = PushUnchecked(heap, enq.nr)
    /\ tqLast' = TQRec("enqueue", SomeEntry(enq.nr), heap, clock, enq.woke,
                       NoEntry, NoTimer, FALSE)
    /\ enq' = NotPushing
    /\ UNCHANGED <<clock, timer, wake, tqUB, tqh, tqn>>
    /\ UNCHANGED <<timeVars, sigVars, fabVars, barVars>>

\* The timer handler takes a pending signal (a wake signal or an expiry of
\* the timer) once the signal is not blocked
LiveHandlerStart ==
    /\ tqh = "idle"
    /\ ~enq.pushing
    /\ wake > 0
    /\ wake' = wake - 1
    /\ tqh' = "run"
    /\ UNCHANGED <<heap, clock, timer, tqUB, tqLast, enq, tqn>>
    /\ UNCHANGED <<timeVars, sigVars, fabVars, barVars>>

\* The timer handler: while let Some((task, index)) = tq.dequeue(timer) { .. }
LiveDequeue ==
    /\ tqh = "run"
    /\ ~enq.pushing
    /\ DequeueCall
    /\ tqh' = IF tqLast'.ret.some THEN "run" ELSE "idle"
    /\ UNCHANGED <<enq, tqn>>
    /\ UNCHANGED <<timeVars, sigVars, fabVars, barVars>>

LiveNext ==
    \/ LiveEnqueueSignal
    \/ LiveEnqueuePush
    \/ LiveHandlerStart
    \/ LiveDequeue
    \/ TQTick
    \/ TQTimerExpires

(***************************************************************************)
(* The specifications                                                      *)
(***************************************************************************)

vars == <<timeVars, tqVars, sigVars, auxVars>>

\* The TimerQueue while another part of the system is examined
TQParked == TQInit

AuxParked == FabricParked /\ BarParked /\ LiveParked

InitTime == TimeInit /\ TQParked /\ SigParked /\ AuxParked
InitTQ == TQInit /\ TimeParked /\ SigParked /\ AuxParked
Init == SigInit /\ TimeParked /\ TQParked /\ AuxParked
InitFabric == FabricInit /\ TimeParked /\ TQParked /\ BarParked /\ LiveParked
InitBarrier ==
    BarInit /\ TimeParked /\ TQParked /\ SigParked /\ FabricParked /\ LiveParked

SpecFabric == InitFabric /\ [][FabricNext]_vars

SpecBarrier == InitBarrier /\ [][BarNext]_vars

InitLive ==
    TQInit /\ LiveInit /\ TimeParked /\ SigParked /\ FabricParked /\ BarParked

\* The kernel delivers a pending signal that is not blocked and fires an
\* expired timer; the handler and the enqueue in progress keep running
SpecTQLive ==
    /\ InitLive
    /\ [][LiveNext]_vars
    /\ WF_vars(LiveEnqueuePush)
    /\ WF_vars(LiveHandlerStart)
    /\ WF_vars(LiveDequeue)
    /\ WF_vars(TQTimerExpires)

SpecTime == InitTime /\ [][TimeNext]_vars

SpecTQ == InitTQ /\ [][TQNext]_vars

Spec == Init /\ [][SigNext]_vars

(***************************************************************************)
(* Properties of the priority ceiling engine, under Spec                   *)
(***************************************************************************)

\* Whether context f is inside an access to resource res: it owns res for
\* its whole run, or it is in the body of a lock of res
InsideAccess(f, res) ==
    \/ f.task >= 0 /\ res \in TaskOf(app, f.task).direct
    \/ \E k \in 1..Len(f.locks) : f.locks[k].res = res /\ f.locks[k].body

Resources == {"SHARED", "R1", "R2"}

\* The signals of the priorities above lo, up to and including hi
SignalsBetween(lo, hi) ==
    {SigBit(RegisterSignal(range, p)) : p \in {q \in Prios(range) : lo < q /\ q <= hi}}

\* The masking lock calls of context f whose body is executing
BodiesOf(f) == {k \in 1..Len(f.locks) : f.locks[k].slow /\ f.locks[k].body}

\* C1: while the body of a lock call that took the masking path executes, no
\* handler of a priority p <= ceiling has started on top of it, whenever the
\* signals arrive; so no two contexts are inside an access to one resource.
C1_LockMutualExclusion ==
    /\ \A i \in 1..Len(stack) : \A j \in 1..Len(stack) : \A k \in BodiesOf(stack[i]) :
          i < j => stack[j].prio > stack[i].locks[k].ceiling
    /\ \A res \in Resources :
          Cardinality({i \in 1..Len(stack) : InsideAccess(stack[i], res)}) <= 1

\* C1's case: a lock body executing while the activation of a task of a
\* priority within its ceiling, sent from outside, is pending
C1_Witness ==
    /\ Len(stack) > 1
    /\ arrivals > 0
    /\ \E k \in BodiesOf(Top) : \E p \in Prios(range) :
          /\ Top.prio < p /\ p <= Top.locks[k].ceiling
          /\ pending[TaskSignal(p)] # <<>>

\* C2: during the body of a masking lock call the priority cell is the
\* ceiling (of the innermost such call) and the signals the call blocked are
\* exactly those of the priorities above the old and up to the new priority;
\* when the call returns, mask and cell are what they were before it, at
\* every level of nesting.
C2_LockBlocksAndRestores ==
    /\ \A i \in 1..Len(stack) : BodiesOf(stack[i]) # {} =>
          LET f == stack[i]
              rec == f.locks[Max(BodiesOf(f))]
          IN  /\ f.phase = "run" => f.cell = rec.ceiling
              /\ \A k \in BodiesOf(f) :
                    /\ f.locks[k].bits =
                          SignalsBetween(f.locks[k].current, f.locks[k].ceiling)
                    /\ f.locks[k].bits \cap f.locks[k].before = {}
              /\ (i = Len(stack) /\ f.phase = "run") =>
                    blocked = rec.before \cup rec.bits
    /\ lockLast.valid =>
          /\ lockLast.cellAfter = lockLast.cellBefore
          /\ lockLast.maskAfter = lockLast.maskBefore

\* C2's case: a masking lock call nested in another one has returned
C2_Witness ==
    /\ lockLast.valid
    /\ lockLast.slow
    /\ lockLast.depth >= 2
    /\ Len(stack) > 1
    /\ lockLast.cellBefore > Top.prio
    /\ BodiesOf(Top) # {}

IsPrefix(s, t) == Len(s) <= Len(t) /\ \A i \in 1..Len(s) : s[i] = t[i]

\* The contexts running task t
FramesOf(t) == {i \in 1..Len(stack) : stack[i].task = t}

\* C3: in the lock example run on its own, bar (priority 2), spawned inside
\* foo's critical section, is held pending until foo has left it and then
\* runs before foo goes on; baz (priority 3) runs at once, inside the
\* critical section; the events are printed in the order B, C, D, E, F.
C3_LockExampleOrder ==
    (app.name = "lock" /\ arrivals = 0) =>
        /\ IsPrefix(trace, <<"B", "C", "D", "E", "F">>)
        /\ exited => trace = <<"B", "C", "D", "E", "F">>
        /\ \A i \in FramesOf(1) :
              /\ FramesOf(0) = {i - 1}
              /\ BodiesOf(stack[i - 1]) = {}
              /\ stack[i - 1].phase = "restore"
        /\ \A i \in FramesOf(2) :
              /\ FramesOf(0) = {i - 1}
              /\ BodiesOf(stack[i - 1]) = {1}
              /\ stack[i - 1].pc = 6
        /\ \A i \in FramesOf(0) :
              (BodiesOf(stack[i]) # {} /\ pending[TaskSignal(2)] # <<>>) =>
                  SigBit(TaskSignal(2)) \in blocked

\* C3's case: the lock example has run to its end
C3_Witness ==
    /\ app.name = "lock"
    /\ arrivals = 0
    /\ exited
    /\ Len(trace) = 5

\* C4: a pending activation is held back by at most one critical section
\* of a lower-priority task: whenever a lower-priority task runs while the
\* activation is pending and blocked, it is inside that one critical
\* section, and no second one is entered before the activation is taken.
C4_BoundedInversion ==
    \A p \in Prios(range) :
        /\ csCount[p] <= 1
        /\ (/\ pending[TaskSignal(p)] # <<>>
            /\ Len(stack) > 1
            /\ Top.prio < p
            /\ SigBit(TaskSignal(p)) \in blocked)
              => Cardinality(HoldingBack(stack, p)) = 1

\* C4's case: a task runs in its critical section while the activation of a
\* higher-priority task is pending, and has another critical section ahead
C4_Witness ==
    /\ Len(stack) > 1
    /\ \E p \in Prios(range) :
          /\ csCount[p] = 1
          /\ Top.prio < p
          /\ pending[TaskSignal(p)] # <<>>
    /\ \E n \in (Top.pc + 1)..Len(TaskOf(app, Top.task).script) :
          TaskOf(app, Top.task).script[n].op = "lock"

\* The signals the lock bodies in progress on the core have blocked
LockBits ==
    UNION {stack[i].locks[k].bits :
              <<i, k>> \in UNION {{<<i0, k0>> : k0 \in BodiesOf(stack[i0])} :
                                     i0 \in 1..Len(stack)}}

\* C14: register installs the handler of a priority on signal
\* SIGRTMIN + end - priority with a handler mask of exactly the signals of
\* the priorities 1 .. priority - 1; so while a handler of priority p runs no
\* handler of a priority q <= p starts on top of it, and a pending signal of
\* a priority q > p that no lock has blocked is deliverable at once and
\* preempts it.
C14_RegisterNoReentry ==
    /\ \A p \in Prios(range) :
          /\ RegisterSignal(range, p) = SIGRTMIN + range.end - p
          /\ RegisterMask(range, p) =
                {SigBit(SIGRTMIN + range.end - q) : q \in 1..(p - 1)}
    /\ \A i \in 1..Len(stack) : \A j \in 1..Len(stack) :
          i < j => stack[i].prio < stack[j].prio
    /\ dLast.valid => dLast.onto < dLast.prio
    /\ (Len(stack) > 1 /\ ~exited) =>
          \A q \in Prios(range) :
              (/\ q > Top.prio
               /\ pending[TaskSignal(q)] # <<>>
               /\ SigBit(TaskSignal(q)) \notin LockBits)
                  => (TaskSignal(q) \in Deliverable /\ ~Executing)

\* C14's case: a handler that preempted another handler runs while an
\* activation of its own or a lower priority, which no lock holds back, is
\* pending
C14_Witness ==
    /\ Len(stack) >= 3
    /\ dLast.valid
    /\ dLast.onto >= 1
    /\ Top.prio = dLast.prio
    /\ \E q \in Prios(range) :
          /\ q <= Top.prio
          /\ q > stack[Len(stack) - 1].prio
          /\ pending[TaskSignal(q)] # <<>>
          /\ SigBit(TaskSignal(q)) \notin LockBits

\* The lock calls of context f that found the cell at or above the ceiling
FastOf(f) == {k \in 1..Len(f.locks) : f.locks[k].current >= f.locks[k].ceiling}

\* C15: a lock call that finds the priority cell at or above the ceiling
\* makes no mask call and goes straight into the body; throughout the call
\* the cell and the blocked-signal mask are what they were on entry, and so
\* they are when it returns.
C15_LockFastPath ==
    /\ \A i \in 1..Len(stack) : \A k \in FastOf(stack[i]) :
          LET f == stack[i]
              rec == f.locks[k]
          IN  /\ ~rec.slow
              /\ rec.body
              /\ rec.bits = {}
              /\ k = Len(f.locks) =>
                    /\ f.phase = "run"
                    /\ f.cell = rec.current
                    /\ i = Len(stack) => blocked = rec.before
    /\ (lockLast.valid /\ ~lockLast.slow) =>
          /\ lockLast.cellAfter = lockLast.cellBefore
          /\ lockLast.maskAfter = lockLast.maskBefore
    /\ \A i \in 1..Len(stack) : \A k \in 1..Len(stack[i].locks) :
          stack[i].locks[k].slow => k \notin FastOf(stack[i])

\* C15's case: a lock call made with the cell exactly at the ceiling has
\* returned, after a handler had preempted its body
C15_Witness ==
    /\ lockLast.valid
    /\ ~lockLast.slow
    /\ app.name = "ceiling"
    /\ Len(stack) > 1
    /\ Top.prio = 2
    /\ lockLast.cellBefore = Top.prio
    /\ dLast.valid /\ dLast.onto = 2

\* C16: when the activation signals of several tasks are pending and not
\* blocked, the kernel delivers the one of the highest priority first, and
\* every handler that starts before that one has finished is of a higher
\* priority still; the signal of a priority, the same for register and
\* enqueue, decreases strictly as the priority increases.
C16_PriorityOrderedDispatch ==
    /\ \A p \in Prios(range) : \A q \in Prios(range) :
          p < q => RegisterSignal(range, p) > RegisterSignal(range, q)
    /\ \A p \in Prios(range) : TaskSignal(p) = RegisterSignal(range, p)
    /\ dLast.valid =>
          /\ dLast.sig \in dLast.among
          /\ \A sg \in dLast.among : HandlerPrio(sg) <= dLast.prio
    /\ \A j \in 2..Len(stack) : stack[j].prio > stack[j - 1].prio

\* C16's case: a handler runs that was chosen among the pending signals of
\* three priorities
C16_Witness ==
    /\ dLast.valid
    /\ Cardinality(dLast.among) >= 3
    /\ Len(stack) > 1
    /\ Top.prio = dLast.prio
    /\ \E sg \in dLast.among : sg # dLast.sig /\ pending[sg] # <<>>

(***************************************************************************)
(* Properties of the Instant arithmetic, under SpecTime                    *)
(***************************************************************************)

\* nanoseconds strictly in [0, 1e9)
Normalized(n) == 0 <= n /\ n < NANOS_IN_ONE_SEC

\* Whether Duration d is exactly the time from Instant a to Instant b:
\* b.sec - a.sec - d.secs whole seconds make up for d.nanos + a.nsec - b.nsec
ExactDiff(a, b, d) ==
    LET m == d.nanos + a.nsec - b.nsec
    IN  /\ m % NANOS_IN_ONE_SEC = 0
        /\ m \div NANOS_IN_ONE_SEC = b.sec - a.sec - d.secs

\* C8: checked_add keeps Instants normalized: from an Instant a with
\* nanoseconds in [0, 1e9) and any Duration, a result Some(r) has r's
\* nanoseconds in [0, 1e9), the sum being exactly 1e9 included.
C8_CheckedAddNormalized ==
    (tLast.op = "checked_add" /\ Normalized(tLast.a.nsec) /\ tLast.ri.some)
        => Normalized(tLast.ri.nsec)

\* C9: Instant addition is associative over Durations: from a normalized
\* Instant a, when (a + d1) + d2 and a + (d1 + d2) both succeed they are equal
\* under Instant's ==.
C9_AddAssociative ==
    (tLast.op = "add_twice" /\ Normalized(tLast.a.nsec)
        /\ tLast.ri.some /\ tLast.ri2.some)
        => InstantEq(UnwrapI(tLast.ri), UnwrapI(tLast.ri2))

C12_CheckedAddNeverWraps ==
    tLast.op = "checked_add" =>
        LET total == tLast.a.nsec + tLast.d.nanos
            exactSecs == tLast.a.sec + tLast.d.secs + (total \div NANOS_IN_ONE_SEC)
        IN  /\ exactSecs > ISIZE_MAX => ~tLast.ri.some
            /\ tLast.ri.some =>
                  /\ tLast.ri.sec + (tLast.ri.nsec \div NANOS_IN_ONE_SEC) = exactSecs
                  /\ tLast.ri.nsec % NANOS_IN_ONE_SEC = total % NANOS_IN_ONE_SEC

\* C20: for normalized Instants a <= b, a.checked_add(b - a) is Some(r) with
\* r == b, and r compares Equal to b.
C20_DifferenceAddRoundTrip ==
    (tLast.op = "round_trip" /\ Normalized(tLast.a.nsec)
        /\ Normalized(tLast.b.nsec) /\ InstantLe(tLast.a, tLast.b))
        => /\ tLast.ri.some
           /\ InstantEq(UnwrapI(tLast.ri), tLast.b)
           /\ InstantCmp(UnwrapI(tLast.ri), tLast.b) = "Equal"

(***************************************************************************)
(* Properties of the TimerQueue, under SpecTQ                              *)
(***************************************************************************)

\* Whether no entry of h has a deadline earlier than instant
NoneEarlier(h, instant) ==
    \A i \in 1..Len(h) : InstantLe(instant, h[i].instant)

\* Whether instant is the minimum of the deadlines of h's entries
IsMinDeadline(h, instant) ==
    /\ \E i \in 1..Len(h) : InstantEq(h[i].instant, instant)
    /\ NoneEarlier(h, instant)

\* How many times entry e occurs in h
Occurrences(h, e) ==
    Cardinality({i \in 1..Len(h) :
        h[i].task = e.task /\ h[i].index = e.index /\ h[i].instant = e.instant})

\* C5: dequeue returns Some((task, index)) only when the clock it sampled is
\* at or after the entry's deadline; with a root later than the clock it
\* returns None, leaves the queue as it was and arms the timer in absolute
\* mode for exactly the minimum deadline; on an empty queue it returns None
\* and arms nothing.
C5_DequeueNeverEarly ==
    (tqLast.op = "dequeue") =>
        /\ tqLast.ret.some => InstantGe(tqLast.at, tqLast.ret.instant)
        /\ (Len(tqLast.before) > 0
              /\ InstantLt(tqLast.at, tqLast.before[1].instant)) =>
                /\ ~tqLast.ret.some
                /\ heap = tqLast.before
                /\ tqLast.armed.armed /\ tqLast.armed.abs
                /\ InstantEq(tqLast.armed.at, tqLast.before[1].instant)
                /\ IsMinDeadline(tqLast.before, tqLast.armed.at)
        /\ Len(tqLast.before) = 0 =>
                /\ ~tqLast.ret.some
                /\ ~tqLast.armed.armed
                /\ heap = <<>>

\* C5's case: a dequeue that found several entries, none of them due, and
\* armed the timer
C5_Witness ==
    /\ tqLast.op = "dequeue"
    /\ Len(tqLast.before) >= 2
    /\ InstantLt(tqLast.at, tqLast.before[1].instant)
    /\ tqLast.armed.armed
    /\ \E i \in 1..Len(tqLast.before) :
          InstantLt(tqLast.armed.at, tqLast.before[i].instant)

\* C6: the entry a dequeue returns has the minimum deadline of all the
\* entries the queue held at that moment, whatever their task and index.
C6_DequeueReturnsMinimum ==
    (tqLast.op = "dequeue" /\ tqLast.ret.some) =>
        /\ IsMinDeadline(tqLast.before, tqLast.ret.instant)
        /\ Occurrences(tqLast.before, tqLast.ret) >= 1
        /\ Len(heap) = Len(tqLast.before) - 1

\* C6's case: a dequeue that returned one of three or more entries, a later
\* deadline and a smaller task number being in the queue with it
C6_Witness ==
    /\ tqLast.op = "dequeue"
    /\ tqLast.ret.some
    /\ Len(tqLast.before) >= 3
    /\ \E i \in 1..Len(tqLast.before) :
          InstantLt(tqLast.ret.instant, tqLast.before[i].instant)
    /\ \E i \in 1..Len(tqLast.before) :
          tqLast.before[i].task < tqLast.ret.task

\* C7: enqueue_unchecked sends the wake signal exactly when the queue is
\* empty or the new deadline is strictly earlier than the minimum deadline
\* in the queue; called with spare capacity, it leaves the queue holding what
\* it held plus the new entry.
C7_WakeExactlyWhenEarlier ==
    (tqLast.op = "enqueue") =>
        /\ tqLast.woke <=>
              \/ Len(tqLast.before) = 0
              \/ \E m \in TQInstants :
                    /\ IsMinDeadline(tqLast.before, m)
                    /\ InstantLt(tqLast.nr.instant, m)
        /\ ~tqLast.full =>
              /\ Len(heap) = Len(tqLast.before) + 1
              /\ \A e \in NotReady :
                    Occurrences(heap, e) = Occurrences(tqLast.before, e)
                        + (IF SomeEntry(e) = tqLast.nr THEN 1 ELSE 0)

\* C7's case: an entry enqueued with the very deadline of the current
\* minimum, which sends no signal
C7_Witness ==
    /\ tqLast.op = "enqueue"
    /\ ~tqLast.full
    /\ Len(tqLast.before) >= 2
    /\ IsMinDeadline(tqLast.before, tqLast.nr.instant)
    /\ ~tqLast.woke
    /\ Occurrences(heap, tqLast.nr) >= 2

\* C18: the queue never holds more than its capacity N; an enqueue made
\* when it holds N entries reports an error and leaves the queue as it was,
\* without pushing past the capacity.
C18_CapacityRespected ==
    /\ Len(heap) <= TQ_CAPACITY
    /\ (tqLast.op = "enqueue" /\ tqLast.full) =>
          /\ heap = tqLast.before
          /\ ~tqUB

(***************************************************************************)
(* Properties of the timer handler's loop, under SpecTQLive                *)
(***************************************************************************)

\* Whether entry e is in the queue
Queued(e) == \E i \in 1..Len(heap) : heap[i] = e

\* C19: with the wake signal blocked from enqueue_unchecked's signal to after
\* its push, and the handler calling dequeue until it returns None on every
\* wake signal and every expiry of the timer, an entry in the queue whose
\* deadline the clock has reached is eventually returned by dequeue.
C19_NoLostWakeup ==
    \A e \in LiveEntries :
        (Queued(e) /\ InstantGe(clock, e.instant))
            ~> (tqLast.op = "dequeue" /\ tqLast.ret = SomeEntry(e))

\* C19's case: after all the enqueue calls of the run the handler has
\* returned the last entry of the queue, one with the latest deadline, and
\* no timer is left armed
C19_Witness ==
    /\ tqLast.op = "dequeue"
    /\ tqLast.ret.some
    /\ InstantEq(tqLast.ret.instant, MkInstant(1, 500000000))
    /\ Len(tqLast.before) = 1
    /\ tqn = MaxEnqueues
    /\ timer = NoTimer
    /\ tqh = "run"

(***************************************************************************)
(* Properties of mask and register, under SpecFabric                       *)
(***************************************************************************)

\* The priorities above lo, up to and including hi
PriosBetween(lo, hi) == {q \in Prios(range) : lo < q /\ q <= hi}

\* C13: mask(start..end, current, ceiling, block) with current < ceiling <=
\* end - start blocks, or unblocks, exactly the signals SIGRTMIN + end - p of
\* the priorities current < p <= ceiling: the signals register installs these
\* priorities' handlers on and no other, all of them in the core's range.
C13_MaskExactRange ==
    fLast.op = "mask" =>
        LET want == {SIGRTMIN + range.end - p :
                        p \in PriosBetween(fLast.current, fLast.ceiling)}
        IN  /\ fLast.bits = {SigBit(sg) : sg \in want}
            /\ want \subseteq Signals(range)
            /\ \A sg \in Signals(range) : sigact[sg].installed =>
                  (sg \in want <=>
                      sigact[sg].priority \in PriosBetween(fLast.current, fLast.ceiling))
            /\ blocked = IF fLast.block THEN fLast.before \cup fLast.bits
                         ELSE fLast.before \ fLast.bits

\* C13's case: the signals of two priorities in the middle of the second
\* core's range unblocked, after all its handlers were installed
C13_Witness ==
    /\ fLast.op = "mask"
    /\ ~fLast.block
    /\ range.start > 0
    /\ fLast.current = 1 /\ fLast.ceiling = 3
    /\ fLast.bits \subseteq fLast.before
    /\ \A sg \in Signals(range) : sigact[sg].installed

(***************************************************************************)
(* Properties of the boot barrier, under SpecBarrier                       *)
(***************************************************************************)

\* C17: Barrier::wait returns on no core before Barrier::release was called;
\* a core whose wait has returned sees every write the releasing core made
\* before release; the flag, once set, stays set, so a later wait returns
\* too.
C17_BarrierPublishes ==
    /\ \A c \in Waiters : bCore[c].pc = "past" =>
          /\ bRel.called
          /\ bCore[c].seen >= bRel.data
    /\ bRel.called => bFlag
    /\ bFlag => bMem >= bRel.data

\* C17's case: two cores are past the barrier, one of which had read the
\* data ahead of its wait, the releasing core having written before release
\* and again after it
C17_Witness ==
    /\ \A c \in Waiters : bCore[c].pc = "past"
    /\ bRel.called
    /\ bRel.data >= 1
    /\ bBuf > bRel.data
    /\ \E c \in Waiters : bCore[c].ahead < bRel.data /\ bCore[c].seen = bRel.data

====
